---- MODULE Spec2Model ----
(***************************************************************************)
(* The zone-based pipeline engine of the S3 data lake:                     *)
(* DataLakeInterface.process_data_pipeline driving a list of inputs        *)
(* through a list of step functions, on top of S3FileUtils                 *)
(* (download_and_parse, save_and_upload) and S3DataLake (upload_file).     *)
(* KeySpec is the same call on inputs that are object keys of any form.    *)
(* LakeSpec calls the operations of a constructed data lake one at a       *)
(* time: upload_file, move_file, create_folder, search_files_by_metadata,  *)
(* download_and_parse, save_and_upload and _ensure_data_lake_exists.       *)
(* CatalogSpec does the same with upload_file, create_folder, bulk_upload, *)
(* update_file_metadata and list_files.                                    *)
(*                                                                         *)
(* Strings are modelled as TLA+ strings built with \o, so that two object  *)
(* keys are equal in the model exactly when the code builds equal strings. *)
(* A file name is kept split as os.path.splitext splits it: a record       *)
(* [stem, ext] where ext is "" or a dot followed by dot-free characters.   *)
(* An input reference is kept split as str.split('/') splits it: the       *)
(* directory segments and the file name.                                   *)
(***************************************************************************)
EXTENDS Integers, Sequences, FiniteSets, TLC

VARIABLES
    input_files,      \* the argument input_files
    process_funcs,    \* the argument process_funcs
    pc,               \* position of the call in process_data_pipeline
    k,                \* position of the outer loop in input_files (1-based)
    i,                \* the step index of the inner loop (0-based)
    current_content,  \* local current_content
    current_zone,     \* local current_zone
    current_path,     \* local current_path, split as [stem, ext]
    results,          \* local results, the list that is returned
    exc,              \* the exception in flight, "none" when there is none
    store,            \* objects the store holds: key -> [content, metadata]
    calls,            \* every upload call issued to the store, in order
    clock,            \* the wall clock, in seconds since the call began
    runs,             \* what happened to each input, in input order
    faults,           \* failures of the store, a parser or a step so far
    last,             \* the last operation called on the data lake
    ops,              \* the number of operations called on the data lake
    tmp,              \* the temporary local files that exist
    given,            \* key -> the value save_and_upload was handed for it
    put_calls         \* the put_object calls the store has received

vars == <<input_files, process_funcs, pc, k, i, current_content,
          current_zone, current_path, results, exc, store, calls, clock, runs,
          faults, last, ops, tmp, given, put_calls>>

\* The variables of one call of process_data_pipeline, the store apart
callvars == <<input_files, process_funcs, pc, k, i, current_content,
              current_zone, current_path, results, exc, calls, clock, runs,
              faults>>

\* The variables of the operations called directly on the data lake
lakevars == <<last, ops, tmp, given, put_calls>>

---------------------------------------------------------------------------
(* Bounds of the model *)

\* A call is given up to MaxInputs inputs and up to MaxSteps steps, and
\* applies up to MaxWork steps in all (inputs times steps).  The clock
\* advances by up to MaxClock seconds during a call, and up to MaxFaults
\* operations of a call fail (a store call, a parse, a step function, a
\* serialization).
MaxInputs == 3
MaxSteps == 4
MaxWork == 6
MaxClock == 1
MaxFaults == 1

---------------------------------------------------------------------------
(* The zone catalog and the orchestrator's step-to-zone mapping *)

zones == <<"raw", "processed", "enriched", "curated">>

ZoneSet == {zones[z] : z \in 1..Len(zones)}

\* The wrong mapping: one zone further per step, up to the last zone
TargetZoneByIndex(idx, n) ==
    IF idx + 2 <= Len(zones) THEN zones[idx + 2] ELSE zones[Len(zones)]

\* The wrong mapping: the final step tested before the first one
TargetZoneFinalFirst(idx, n) ==
    IF idx = n - 1 THEN "curated"
    ELSE IF idx = 0 THEN "processed"
    ELSE "enriched"

\* The if/elif/else on i and len(process_funcs)
TargetZone(idx, n) ==
    IF idx = 0 THEN "processed"
    ELSE IF idx = n - 1 THEN "curated"
    ELSE "enriched"

---------------------------------------------------------------------------
(* References, file names and keys *)

RECURSIVE Join(_)
Join(segs) ==
    IF segs = <<>> THEN ""
    ELSE segs[1] \o "/" \o Join(Tail(segs))

\* The reference as the string the caller passed
RefStr(ref) == Join(ref.dir) \o ref.stem \o ref.ext

\* os.path.basename of a reference, already split by os.path.splitext
BaseName(ref) == [stem |-> ref.stem, ext |-> ref.ext]

NameStr(name) == name.stem \o name.ext

\* f"{zone}/{s3_file_path}"
Key(zone, name) == zone \o "/" \o NameStr(name)

\* Local files that exist (os.path.exists is true for them)
LocalRefs ==
    { [dir |-> <<"data">>, stem |-> "notes", ext |-> ".csv"] }

\* References that are no local file: they are taken as object keys
KeyRefs ==
    { [dir |-> <<"enriched", "a">>, stem |-> "memo", ext |-> ".json"],
      [dir |-> <<>>, stem |-> "blob", ext |-> ".bin"] }

InputRefs == LocalRefs \cup KeyRefs

Exists(ref) == ref \in LocalRefs

SeqsUpTo(S, n) == UNION {[1..m -> S] : m \in 0..n}

\* Step functions: two with a __name__, one without (a functools.partial)
StepPool ==
    << [named |-> TRUE, name |-> "dedupe"],
       [named |-> FALSE, name |-> ""],
       [named |-> TRUE, name |-> "enrich"] >>

\* The step lists a call is given: one of every length
StepLists ==
    { [j \in 1..n |-> StepPool[((j - 1) % Len(StepPool)) + 1]] : n \in 0..MaxSteps }

\* datetime.now().strftime("%Y%m%d_%H%M%S") at second c of the call
Timestamp(c) == "20240101_12000" \o ToString(c)

---------------------------------------------------------------------------
(* Content and codecs (S3FileUtils) *)

\* current_content = None
NoContent == [shape |-> "None", origin |-> "", trail |-> <<>>]

\* What a file of an extension holds: for an extension with a parser, the
\* shape the parser returns; otherwise raw bytes
ParsedShape(ext) ==
    CASE ext \in {".csv", ".tsv"} -> "records"
      [] ext \in {".json", ".yaml", ".yml"} -> "tree"
      [] ext \in {".xlsx", ".xls"} -> "sheets"
      [] ext = ".txt" -> "text"
      [] OTHER -> "bytes"

\* The wrong chain: the final else hands the downloaded bytes through
HasParserAny(ext) == TRUE

\* download_and_parse: the if/elif chain on the extension has a parser
HasParser(ext) == ext \in {".csv", ".tsv", ".json", ".yaml", ".yml", ".xlsx", ".xls", ".txt"}

\* save_and_upload: the if/elif chain on the extension has a saver
HasSaver(ext) == ext \in {".csv", ".tsv", ".json", ".yaml", ".yml", ".xlsx", ".xls", ".txt"}

\* The _save_* function of the extension writes the content without raising
SaverAccepts(ext, shape) ==
    CASE ext \in {".csv", ".tsv"} -> shape \in {"records", "dataframe"}
      [] ext = ".json" -> shape \in {"records", "empty", "tree", "text", "sheets"}
      [] ext \in {".yaml", ".yml"} -> TRUE
      [] ext \in {".xlsx", ".xls"} -> shape \in {"sheets", "tree", "records", "dataframe"}
      [] ext = ".txt" -> shape = "text"
      [] OTHER -> FALSE

\* The shape a parser gives back for what a saver wrote: _save_csv and
\* _save_excel write a table or a workbook whatever they were given, and
\* _parse_csv and _parse_excel return records and a dict of sheets
WrittenShape(ext, shape) ==
    CASE ext \in {".csv", ".tsv"} -> "records"
      [] ext \in {".xlsx", ".xls"} -> "sheets"
      [] OTHER -> shape

\* The content of the object a saver writes, as its parser reads it
Written(ext, content) == [content EXCEPT !.shape = WrittenShape(ext, content.shape)]

\* What a step function may return for a content: a value of the same
\* shape, or an empty list
StepShapes(content) == {content.shape, "empty"}

\* download_and_parse(s3_key): (content, mime) with content None on any
\* failure; outcome is what the download and the parser do
ParseOutcomes == {"ok", "download_error", "parser_error"}

download_and_parse(st, key, ext, outcome) ==
    IF key \notin DOMAIN st \/ outcome = "download_error" THEN NoContent
    ELSE IF ~HasParser(ext) THEN NoContent
    ELSE IF outcome = "parser_error" THEN NoContent
    ELSE st[key].content

---------------------------------------------------------------------------
(* The store adapter (S3DataLake.upload_file) *)

\* What s3.upload_file does: returns, raises ClientError, raises another
\* exception
UploadOutcomes == {"ok", "client_error", "other_error"}

\* 1 for an outcome that is a failure of the store or of a parser
Failed(outcome) == IF outcome = "ok" THEN 0 ELSE 1

\* The wrong check: a catalog that lacks the first zone
ValidZoneWithoutRaw(zone) == zone \in ZoneSet \ {"raw"}

\* The wrong check: any zone name is taken
ValidZoneAny(zone) == TRUE

\* if zone not in self.zones: return False, before any store call
ValidZone(zone) == zone \in ZoneSet

\* S3DataLake.upload_file: True, False (ClientError is caught), or the
\* exception it lets through
upload_file(zone, outcome) ==
    IF ~ValidZone(zone) THEN "False"
    ELSE CASE outcome = "ok" -> "True"
           [] outcome = "client_error" -> "False"
           [] OTHER -> "raise"

\* S3FileUtils.extract_metadata, used when the caller gives no metadata
extract_metadata(ref) == [filename |-> NameStr(BaseName(ref))]

\* The object a local file holds
LocalContent(ref) ==
    [shape |-> ParsedShape(ref.ext), origin |-> RefStr(ref), trail |-> <<>>]

\* Objects the store holds before the call: one per key reference
InitialStore ==
    [key \in {RefStr(r) : r \in KeyRefs} |->
        [content |-> LocalContent(CHOOSE r \in KeyRefs : RefStr(r) = key),
         metadata |-> [filename |-> key]]]

---------------------------------------------------------------------------
(* The orchestrator (DataLakeInterface.process_data_pipeline) *)

\* current_path = None
NoPath == [stem |-> "", ext |-> ""]

\* The wrong name: built from the original input's base name at every step
StepFileNameFromOriginal(path, idx, ts) ==
    [stem |-> input_files[k].stem \o "_" \o ToString(idx + 1) \o "_" \o ts,
     ext |-> path.ext]

\* The wrong name: the original input's base name and the timestamp alone
StepFileNameTimestampOnly(path, idx, ts) ==
    [stem |-> input_files[k].stem \o "_" \o ts, ext |-> path.ext]

\* f"{name_parts[0]}_{i+1}_{timestamp}{name_parts[1]}" with
\* name_parts = os.path.splitext(current_path)
StepFileName(path, idx, ts) ==
    [stem |-> path.stem \o "_" \o ToString(idx + 1) \o "_" \o ts,
     ext |-> path.ext]

\* The wrong metadata: the step labelled with the 0-based index
LineageMetadataZeroBased(ref, idx, func) ==
    [original_file |-> RefStr(ref),
     processing_step |-> "step_" \o ToString(idx),
     processor |-> IF func.named THEN func.name ELSE "unknown"]

\* The metadata dict handed to save_and_upload
LineageMetadata(ref, idx, func) ==
    [original_file |-> RefStr(ref),
     processing_step |-> "step_" \o ToString(idx + 1),
     processor |-> IF func.named THEN func.name ELSE "unknown"]

\* The wrong test: an input that stopped in 'processed' is reported too
InResultsFromProcessed(zone) == zone \in {"processed", "enriched", "curated"}

\* The wrong test: only 'curated' is reported
InResultsCuratedOnly(zone) == zone = "curated"

\* if current_zone == 'curated' or current_zone == 'enriched'
InResults(zone) == zone = "curated" \/ zone = "enriched"

\* The wrong handler: except ClientError
OuterCatchesClientErrorOnly(e) == e = "client_error"

\* The outer "except Exception" of the per-input try
OuterCatches(e) == e \in {"client_error", "other_error"}

\* The wrong test: the missing content is not noticed
IsNoneNever(content) == FALSE

\* if current_content is None
IsNone(content) == content = NoContent

\* The wrong update: the loop variable takes the step's value even when no
\* key came back
AdvanceAlways(s3_key, old, new) == new

\* The wrong update: the loop variable is never replaced
AdvanceNever(s3_key, old, new) == old

\* if not s3_key: break; otherwise the loop variable takes the step's value
Advance(s3_key, old, new) == IF s3_key THEN new ELSE old

\* The zone an object-key input starts in: parts[0] when the key has a '/'
StartZone(ref) == IF Len(ref.dir) + 1 > 1 THEN ref.dir[1] ELSE "raw"

\* The record kept of one input's run
NewRun ==
    [upload |-> "none", tried |-> FALSE, parsed |-> NoContent,
     resolved |-> FALSE, steps |-> <<>>,
     received |-> <<>>, reported |-> <<>>]

Init ==
    /\ process_funcs \in StepLists
    /\ input_files \in SeqsUpTo(InputRefs, MaxInputs)
    /\ Len(input_files) * Len(process_funcs) <= MaxWork
    /\ pc = "loop"
    /\ k = 1
    /\ i = 0
    /\ current_content = NoContent
    /\ current_zone = "raw"
    /\ current_path = NoPath
    /\ results = <<>>
    /\ exc = "none"
    /\ store = InitialStore
    /\ calls = <<>>
    /\ clock = 0
    /\ runs = <<>>
    /\ faults = 0
    /\ last = [op |-> "none"]
    /\ ops = 0
    /\ tmp = {}
    /\ given = <<>>
    /\ put_calls = 0

\* for input_file in input_files: the next input begins
BeginInput ==
    /\ pc = "loop"
    /\ k <= Len(input_files)
    /\ current_content' = NoContent
    /\ current_zone' = "raw"
    /\ current_path' = NoPath
    /\ runs' = Append(runs, NewRun)
    /\ i' = 0
    /\ pc' = "resolve"
    /\ UNCHANGED <<input_files, process_funcs, k, results, exc, store, calls, clock,
                   faults>>
    /\ UNCHANGED lakevars

\* if os.path.exists(input_file): upload to raw, then parse the uploaded key
ResolveLocal ==
    /\ pc = "resolve"
    /\ Exists(input_files[k])
    /\ LET ref == input_files[k]
           name == BaseName(ref)
           key == Key("raw", name)
       IN \E uout \in UploadOutcomes, pout \in ParseOutcomes :
            LET ret == upload_file("raw", uout)
                st == IF ret = "True"
                      THEN (key :> [content |-> LocalContent(ref),
                                    metadata |-> extract_metadata(ref)]) @@ store
                      ELSE store
            IN /\ faults' = faults + Failed(uout) + Failed(pout)
               /\ faults' <= MaxFaults
               /\ calls' = IF ValidZone("raw")
                           THEN Append(calls, [input |-> k, step |-> 0, zone |-> "raw",
                                               name |-> name, ts |-> "", key |-> key,
                                               metadata |-> extract_metadata(ref),
                                               content |-> LocalContent(ref),
                                               ok |-> (uout = "ok")])
                           ELSE calls
               /\ store' = st
               /\ CASE ret = "True" ->
                         /\ current_content' = download_and_parse(st, key, name.ext, pout)
                         /\ current_path' = name
                         /\ runs' = [runs EXCEPT
                                        ![k].upload = "ok",
                                        ![k].tried = TRUE,
                                        ![k].parsed =
                                            download_and_parse(st, key, name.ext, pout)]
                         /\ pc' = "check"
                         /\ UNCHANGED <<k, exc>>
                    [] ret = "False" ->
                         \* if not s3_key: continue
                         /\ pout = "ok"
                         /\ runs' = [runs EXCEPT ![k].upload = "failed"]
                         /\ pc' = "loop"
                         /\ k' = k + 1
                         /\ UNCHANGED <<current_content, current_path, exc>>
                    [] OTHER ->
                         /\ pout = "ok"
                         /\ runs' = [runs EXCEPT ![k].upload = "raised"]
                         /\ exc' = uout
                         /\ pc' = "except"
                         /\ UNCHANGED <<current_content, current_path, k>>
    /\ UNCHANGED <<input_files, process_funcs, i, current_zone, results, clock>>
    /\ UNCHANGED lakevars

\* else: the input is an object key, parsed directly
ResolveKey ==
    /\ pc = "resolve"
    /\ ~Exists(input_files[k])
    /\ LET ref == input_files[k]
       IN \E pout \in ParseOutcomes :
            /\ faults' = faults + Failed(pout)
            /\ faults' <= MaxFaults
            /\ current_content' =
                   download_and_parse(store, RefStr(ref), ref.ext, pout)
            /\ current_path' = BaseName(ref)
            /\ current_zone' = StartZone(ref)
            /\ runs' = [runs EXCEPT
                           ![k].tried = TRUE,
                           ![k].parsed =
                               download_and_parse(store, RefStr(ref), ref.ext, pout)]
    /\ pc' = "check"
    /\ UNCHANGED <<input_files, process_funcs, k, i, results, exc, store, calls,
                   clock>>
    /\ UNCHANGED lakevars

\* if current_content is None: continue; otherwise the step loop begins
CheckContent ==
    /\ pc = "check"
    /\ IF IsNone(current_content)
       THEN /\ pc' = "loop"
            /\ k' = k + 1
            /\ UNCHANGED runs
       ELSE /\ pc' = IF Len(process_funcs) = 0 THEN "finish" ELSE "step"
            /\ runs' = [runs EXCEPT ![k].resolved = TRUE]
            /\ UNCHANGED k
    /\ UNCHANGED <<input_files, process_funcs, i, current_content, current_zone,
                   current_path, results, exc, store, calls, clock, faults>>
    /\ UNCHANGED lakevars

\* process_func(current_content) raises: the inner except logs and breaks
StepRaises ==
    /\ pc = "step"
    /\ faults < MaxFaults
    /\ faults' = faults + 1
    /\ runs' = [runs EXCEPT ![k].steps = Append(@, "raised"),
                             ![k].received = Append(@, current_content)]
    /\ pc' = "finish"
    /\ UNCHANGED <<input_files, process_funcs, k, i, current_content, current_zone,
                   current_path, results, exc, store, calls, clock>>
    /\ UNCHANGED lakevars

\* process_func(current_content) returns: the output is named, serialized
\* and uploaded by save_and_upload; the run advances only if a key came back
StepReturns ==
    /\ pc = "step"
    /\ LET ref == input_files[k]
           func == process_funcs[i + 1]
           target_zone == TargetZone(i, Len(process_funcs))
       IN \E shape \in StepShapes(current_content), tick \in 0..1,
             uout \in UploadOutcomes :
            LET processed_content ==
                    [shape |-> shape, origin |-> current_content.origin,
                     trail |-> Append(current_content.trail, i)]
                timestamp == Timestamp(clock + tick)
                processed_file_name == StepFileName(current_path, i, timestamp)
                metadata == LineageMetadata(ref, i, func)
                key == Key(target_zone, processed_file_name)
                \* save_and_upload reaches the upload: a saver exists for the
                \* extension and it did not raise
                saved == HasSaver(processed_file_name.ext)
                         /\ SaverAccepts(processed_file_name.ext, shape)
                called == saved /\ ValidZone(target_zone)
                \* save_and_upload returns a key only when upload_file
                \* returned True; its except turns an exception into None
                s3_key == saved /\ upload_file(target_zone, uout) = "True"
            IN /\ clock + tick <= MaxClock
               /\ clock' = clock + tick
               /\ ~saved => uout = "ok"
               /\ faults' = faults + (IF saved THEN Failed(uout) ELSE 1)
               /\ faults' <= MaxFaults
               /\ calls' = IF called
                           THEN Append(calls, [input |-> k, step |-> i + 1,
                                               zone |-> target_zone,
                                               name |-> processed_file_name,
                                               ts |-> timestamp, key |-> key,
                                               metadata |-> metadata,
                                               content |-> processed_content,
                                               ok |-> s3_key])
                           ELSE calls
               /\ store' = IF s3_key
                           THEN (key :> [content |->
                                             Written(processed_file_name.ext,
                                                     processed_content),
                                         metadata |-> metadata]) @@ store
                           ELSE store
               /\ current_content' = Advance(s3_key, current_content, processed_content)
               /\ current_zone' = Advance(s3_key, current_zone, target_zone)
               /\ current_path' = Advance(s3_key, current_path, processed_file_name)
               /\ runs' = [runs EXCEPT
                              ![k].steps = Append(@, IF s3_key THEN "ok"
                                                     ELSE IF saved THEN "rejected"
                                                     ELSE "unsaved"),
                              ![k].received = Append(@, current_content)]
               /\ IF s3_key
                  THEN /\ i' = i + 1
                       /\ pc' = IF i + 1 = Len(process_funcs) THEN "finish" ELSE "step"
                  ELSE /\ pc' = "finish"
                       /\ UNCHANGED i
    /\ UNCHANGED <<input_files, process_funcs, k, results, exc>>
    /\ UNCHANGED lakevars

\* After the step loop: the run's final key is appended if its zone is
\* 'curated' or 'enriched'
Finish ==
    /\ pc = "finish"
    /\ LET entry == Key(current_zone, current_path)
       IN IF InResults(current_zone)
          THEN /\ results' = Append(results, entry)
               /\ runs' = [runs EXCEPT ![k].reported = Append(@, entry)]
          ELSE UNCHANGED <<results, runs>>
    /\ pc' = "loop"
    /\ k' = k + 1
    /\ UNCHANGED <<input_files, process_funcs, i, current_content, current_zone,
                   current_path, exc, store, calls, clock, faults>>
    /\ UNCHANGED lakevars

\* The outer except of the per-input try: the exception is logged and the
\* loop goes on; an exception it does not catch leaves the call
OuterExcept ==
    /\ pc = "except"
    /\ IF OuterCatches(exc)
       THEN /\ pc' = "loop"
            /\ k' = k + 1
            /\ exc' = "none"
       ELSE /\ pc' = "raised"
            /\ UNCHANGED <<k, exc>>
    /\ UNCHANGED <<input_files, process_funcs, i, current_content, current_zone,
                   current_path, results, store, calls, clock, runs, faults>>
    /\ UNCHANGED lakevars

\* return results
Return ==
    /\ pc = "loop"
    /\ k > Len(input_files)
    /\ pc' = "returned"
    /\ UNCHANGED <<input_files, process_funcs, k, i, current_content, current_zone,
                   current_path, results, exc, store, calls, clock, runs, faults>>
    /\ UNCHANGED lakevars

Next ==
    \/ BeginInput
    \/ ResolveLocal
    \/ ResolveKey
    \/ CheckContent
    \/ StepRaises
    \/ StepReturns
    \/ Finish
    \/ OuterExcept
    \/ Return

Spec == Init /\ [][Next]_vars

\* The call is one sequential thread: it keeps running until it returns
FairSpec == Spec /\ WF_vars(Next)

---------------------------------------------------------------------------
(* Calls whose inputs are object keys of any form: under a name that is no *)
(* zone of the catalog, and without any '/'                                *)

\* A call of this kind is given up to MaxKeyInputs inputs
MaxKeyInputs == 2

\* References that are no local file, taken as object keys: one under
\* 'archive', which is no zone, and one without a '/'
OtherKeyRefs ==
    { [dir |-> <<"archive">>, stem |-> "memo", ext |-> ".json"],
      [dir |-> <<>>, stem |-> "memo", ext |-> ".json"] }

\* Objects the store holds before such a call: one per key reference
OtherStore ==
    [key \in {RefStr(r) : r \in OtherKeyRefs} |->
        [content |-> LocalContent(CHOOSE r \in OtherKeyRefs : RefStr(r) = key),
         metadata |-> [filename |-> key]]]

KeyInit ==
    /\ process_funcs \in StepLists
    /\ input_files \in SeqsUpTo(LocalRefs \cup OtherKeyRefs, MaxKeyInputs)
    /\ Len(input_files) * Len(process_funcs) <= MaxWork
    /\ pc = "loop"
    /\ k = 1
    /\ i = 0
    /\ current_content = NoContent
    /\ current_zone = "raw"
    /\ current_path = NoPath
    /\ results = <<>>
    /\ exc = "none"
    /\ store = OtherStore
    /\ calls = <<>>
    /\ clock = 0
    /\ runs = <<>>
    /\ faults = 0
    /\ last = [op |-> "none"]
    /\ ops = 0
    /\ tmp = {}
    /\ given = <<>>
    /\ put_calls = 0

KeySpec == KeyInit /\ [][Next]_vars

---------------------------------------------------------------------------
(* The operations called directly on the data lake: S3DataLake,            *)
(* S3FileUtils.download_and_parse and save_and_upload,                     *)
(* DataLakeInterface.search_files_by_metadata.  Each operation is a        *)
(* function of the store and its arguments to its return value, the store  *)
(* it leaves and the calls it issued to the store.                         *)

\* Up to MaxOps operations are called on a constructed data lake
MaxOps == 3

\* An optional path argument left at None
NoRef == [dir |-> <<>>, stem |-> "", ext |-> ""]

\* The key f"{zone}/{path}", split like a reference
KeyRef(zone, path) ==
    [dir |-> <<zone>> \o path.dir, stem |-> path.stem, ext |-> path.ext]

\* A key that ends with '/': the marker of a zone or of a folder
Marker(dir) == [dir |-> dir, stem |-> "", ext |-> ""]

\* obj['Key'].endswith('/')
IsMarker(ref) == ref.dir # <<>> /\ ref.stem = "" /\ ref.ext = ""

\* No metadata: None or {}
NoMetadata == [f \in {} |-> ""]

\* What a put_object without a body stores
EmptyObject ==
    [content |-> [shape |-> "bytes", origin |-> "", trail |-> <<>>],
     metadata |-> NoMetadata]

\* The keys the operations of the model can name, in the order the store
\* lists them (the byte order of the key strings)
LakeKeys ==
    << [dir |-> <<>>, stem |-> "blob", ext |-> ".bin"],
       [dir |-> <<"curated">>, stem |-> "", ext |-> ""],
       [dir |-> <<"curated", "b">>, stem |-> "", ext |-> ""],
       [dir |-> <<"curated", "b">>, stem |-> "out", ext |-> ".csv"],
       [dir |-> <<"curated">>, stem |-> "memo", ext |-> ".json"],
       [dir |-> <<"curated">>, stem |-> "notes", ext |-> ".csv"],
       [dir |-> <<"curated">>, stem |-> "notes_1", ext |-> ".csv"],
       [dir |-> <<"curated">>, stem |-> "out", ext |-> ".csv"],
       [dir |-> <<"curated">>, stem |-> "out", ext |-> ".json"],
       [dir |-> <<"curated">>, stem |-> "out", ext |-> ".txt"],
       [dir |-> <<"curated">>, stem |-> "out", ext |-> ".xlsx"],
       [dir |-> <<"enriched">>, stem |-> "", ext |-> ""],
       [dir |-> <<"enriched", "a">>, stem |-> "memo", ext |-> ".json"],
       [dir |-> <<"processed">>, stem |-> "", ext |-> ""],
       [dir |-> <<"processed", "b">>, stem |-> "", ext |-> ""],
       [dir |-> <<"processed", "b">>, stem |-> "out", ext |-> ".csv"],
       [dir |-> <<"processed">>, stem |-> "blob", ext |-> ".bin"],
       [dir |-> <<"processed">>, stem |-> "memo_1", ext |-> ".json"],
       [dir |-> <<"processed">>, stem |-> "notes", ext |-> ".csv"],
       [dir |-> <<"processed">>, stem |-> "notes_1", ext |-> ".csv"],
       [dir |-> <<"processed">>, stem |-> "out", ext |-> ".csv"],
       [dir |-> <<"processed">>, stem |-> "out", ext |-> ".json"],
       [dir |-> <<"processed">>, stem |-> "out", ext |-> ".txt"],
       [dir |-> <<"processed">>, stem |-> "out", ext |-> ".xlsx"],
       [dir |-> <<"raw">>, stem |-> "", ext |-> ""] >>

\* The objects of an existing bucket before the data lake is constructed on
\* it: step outputs with lineage metadata, and a file without a parser
ExistingObjects ==
    ("processed/notes_1.csv" :>
        [content |-> [shape |-> "records", origin |-> "processed/notes_1.csv",
                      trail |-> <<>>],
         metadata |-> [processor |-> "dedupe", processing_step |-> "step_1"]])
    @@ ("processed/memo_1.json" :>
        [content |-> [shape |-> "tree", origin |-> "processed/memo_1.json",
                      trail |-> <<>>],
         metadata |-> [processor |-> "dedupe", processing_step |-> "step_2"]])
    @@ ("processed/blob.bin" :>
        [content |-> [shape |-> "bytes", origin |-> "processed/blob.bin",
                      trail |-> <<>>],
         metadata |-> [processor |-> "enrich"]])
    @@ InitialStore

\* One call received by the store
S3Call(api, key) == [api |-> api, key |-> key]

\* The store without one key
Without(st, key) == [x \in DOMAIN st \ {key} |-> st[x]]

\* s3.copy_object: the store refuses (ClientError) a source key it does
\* not hold, and a copy of an object onto itself that changes nothing
copy_object(st, source_key, target_key, outcome) ==
    LET err == IF outcome # "ok" THEN outcome
               ELSE IF source_key \notin DOMAIN st \/ source_key = target_key
               THEN "client_error"
               ELSE "ok"
    IN [err |-> err,
        st |-> IF err = "ok" THEN (target_key :> st[source_key]) @@ st ELSE st]

\* s3.delete_object
delete_object(st, key, outcome) ==
    [err |-> outcome, st |-> IF outcome = "ok" THEN Without(st, key) ELSE st]

\* The wrong key: the local path is used whole when no path is given
UploadFileOpFullPath(st, local, zone, s3_file_path, metadata, outcome) ==
    IF ~ValidZone(zone) THEN [ret |-> "False", st |-> st, s3 |-> <<>>]
    ELSE LET path == IF s3_file_path = NoRef THEN local ELSE s3_file_path
             key == RefStr(KeyRef(zone, path))
         IN [ret |-> upload_file(zone, outcome),
             st |-> IF outcome = "ok"
                    THEN (key :> [content |-> LocalContent(local),
                                  metadata |-> metadata]) @@ st
                    ELSE st,
             s3 |-> <<S3Call("upload_file", key)>>]

\* S3DataLake.upload_file(local_file_path, zone, s3_file_path, metadata)
UploadFileOp(st, local, zone, s3_file_path, metadata, outcome) ==
    IF ~ValidZone(zone) THEN [ret |-> "False", st |-> st, s3 |-> <<>>]
    ELSE LET path == IF s3_file_path = NoRef
                     THEN [dir |-> <<>>, stem |-> local.stem, ext |-> local.ext]
                     ELSE s3_file_path
             key == RefStr(KeyRef(zone, path))
         IN [ret |-> upload_file(zone, outcome),
             st |-> IF outcome = "ok"
                    THEN (key :> [content |-> LocalContent(local),
                                  metadata |-> metadata]) @@ st
                    ELSE st,
             s3 |-> <<S3Call("upload_file", key)>>]

\* No key came back: save_and_upload or upload_file returned None
NoKey == ""

\* The pieces of a local path joined by the separator of the platform
RECURSIVE JoinWith(_, _)
JoinWith(segs, sep) ==
    IF Len(segs) = 1 THEN segs[1]
    ELSE segs[1] \o sep \o JoinWith(Tail(segs), sep)

\* The directory bulk_upload is given
Directory == <<"data">>

\* The files under the directory, relative to it, in the order os.walk
\* visits them: the files of the directory, then those of its folder 'b'
DirectoryFiles ==
    << [dir |-> <<>>, stem |-> "notes", ext |-> ".csv"],
       [dir |-> <<>>, stem |-> "memo", ext |-> ".json"],
       [dir |-> <<"b">>, stem |-> "out", ext |-> ".csv"] >>

\* file_paths: every file under the directory, or with recursive=False
\* the files of the directory itself
Collected(recursive) ==
    IF recursive THEN DirectoryFiles
    ELSE SelectSeq(DirectoryFiles, LAMBDA f : f.dir = <<>>)

\* os.path.join(root, file)
FilePath(file) == [dir |-> Directory \o file.dir, stem |-> file.stem, ext |-> file.ext]

\* os.path.relpath(file_path, directory): the pieces below the directory,
\* separated by os.sep
rel_path(file_path, directory, sep) ==
    [segs |-> SubSeq(file_path.dir, Len(directory) + 1, Len(file_path.dir))
              \o <<NameStr(BaseName(file_path))>>,
     sep |-> sep]

\* rel_path.replace('\\', '/') if '\\' in rel_path else rel_path
s3_file_path(path) ==
    IF path.sep = "\\" /\ Len(path.segs) > 1 THEN [path EXCEPT !.sep = "/"] ELSE path

\* The path as a string
PathStr(path) == JoinWith(path.segs, path.sep)

\* DataLakeInterface.upload_file(local_file_path, zone, s3_file_path):
\* the key when S3DataLake.upload_file returned True, None when it returned
\* False; an exception of the store that is no ClientError is let through
InterfaceUpload(st, local, zone, path, outcome) ==
    LET key == zone \o "/" \o PathStr(path)
        success == upload_file(zone, outcome)
    IN [key |-> IF success = "True" THEN key ELSE NoKey,
        raised |-> success = "raise",
        st |-> IF success = "True"
               THEN (key :> [content |-> LocalContent(local),
                             metadata |-> extract_metadata(local)]) @@ st
               ELSE st,
        s3 |-> IF ValidZone(zone) THEN <<S3Call("upload_file", key)>> ELSE <<>>]

\* The upload outcome of the n-th collected file when the upload of file
\* fail.at fails with fail.kind (fail.at = 0: none fails)
FileOutcome(fail, n) == IF n = fail.at THEN fail.kind ELSE "ok"

\* The wrong test: whatever upload_file gave back is appended
BulkEntryAlways(s3_key) == <<s3_key>>

\* if s3_key: uploaded_files.append(s3_key)
BulkEntry(s3_key) == IF s3_key # NoKey THEN <<s3_key>> ELSE <<>>

\* for file_path in file_paths, from the n-th file on: each file is
\* uploaded inside its own try, whose except logs and goes on
RECURSIVE BulkFrom(_, _, _, _, _, _)
BulkFrom(st, file_paths, n, zone, sep, fail) ==
    IF n > Len(file_paths) THEN [ret |-> <<>>, st |-> st, s3 |-> <<>>]
    ELSE LET file_path == FilePath(file_paths[n])
             up == InterfaceUpload(st, file_path, zone,
                                   s3_file_path(rel_path(file_path, Directory, sep)),
                                   FileOutcome(fail, n))
             rest == BulkFrom(up.st, file_paths, n + 1, zone, sep, fail)
         IN [ret |-> (IF up.raised THEN <<>> ELSE BulkEntry(up.key)) \o rest.ret,
             st |-> rest.st,
             s3 |-> up.s3 \o rest.s3]

\* DataLakeInterface.bulk_upload(directory, zone, recursive)
bulk_upload(st, zone, recursive, sep, fail) ==
    BulkFrom(st, Collected(recursive), 1, zone, sep, fail)

\* The wrong order: the source is deleted before it is copied
move_file_DeleteFirst(st, source, target_zone, target_path, cout, dout) ==
    IF ~ValidZone(target_zone) THEN [ret |-> "False", st |-> st, s3 |-> <<>>]
    ELSE LET path == IF target_path = NoRef
                     THEN [dir |-> <<>>, stem |-> source.stem, ext |-> source.ext]
                     ELSE target_path
             source_key == RefStr(source)
             target_key == RefStr(KeyRef(target_zone, path))
             deleted == delete_object(st, source_key, dout)
             copied == copy_object(deleted.st, source_key, target_key, cout)
         IN IF deleted.err # "ok"
            THEN [ret |-> IF deleted.err = "client_error" THEN "False" ELSE "raise",
                  st |-> deleted.st,
                  s3 |-> <<S3Call("delete_object", source_key)>>]
            ELSE [ret |-> CASE copied.err = "ok" -> "True"
                            [] copied.err = "client_error" -> "False"
                            [] OTHER -> "raise",
                  st |-> copied.st,
                  s3 |-> <<S3Call("delete_object", source_key),
                           S3Call("copy_object", target_key)>>]

\* S3DataLake.move_file(source_key, target_zone, target_path): copy, then
\* delete; a ClientError of either call is caught and gives False
move_file(st, source, target_zone, target_path, cout, dout) ==
    IF ~ValidZone(target_zone) THEN [ret |-> "False", st |-> st, s3 |-> <<>>]
    ELSE LET path == IF target_path = NoRef
                     THEN [dir |-> <<>>, stem |-> source.stem, ext |-> source.ext]
                     ELSE target_path
             source_key == RefStr(source)
             target_key == RefStr(KeyRef(target_zone, path))
             copied == copy_object(st, source_key, target_key, cout)
             deleted == delete_object(copied.st, source_key, dout)
         IN IF copied.err # "ok"
            THEN [ret |-> IF copied.err = "client_error" THEN "False" ELSE "raise",
                  st |-> copied.st,
                  s3 |-> <<S3Call("copy_object", target_key)>>]
            ELSE [ret |-> CASE deleted.err = "ok" -> "True"
                            [] deleted.err = "client_error" -> "False"
                            [] OTHER -> "raise",
                  st |-> deleted.st,
                  s3 |-> <<S3Call("copy_object", target_key),
                           S3Call("delete_object", source_key)>>]

\* S3DataLake.create_folder(zone, folder_path): the folder path is given
\* with or without its final '/', and the key always ends with one
create_folder(st, zone, folder_path, outcome) ==
    IF ~ValidZone(zone) THEN [ret |-> "False", st |-> st, s3 |-> <<>>]
    ELSE LET key == RefStr(Marker(<<zone>> \o folder_path.segs))
         IN [ret |-> CASE outcome = "ok" -> "True"
                       [] outcome = "client_error" -> "False"
                       [] OTHER -> "raise",
             st |-> IF outcome = "ok" THEN (key :> EmptyObject) @@ st ELSE st,
             s3 |-> <<S3Call("put_object", key)>>]

\* zone = None
NoZone == ""

\* prefix = None
NoPrefix == [dir |-> <<>>, part |-> ""]

\* The prefix list_files asks the store for: the if/elif chain on zone and
\* prefix.  A prefix is kept split at its '/': the whole segments, and the
\* beginning of a segment that follows them
FullPrefix(zone, prefix) ==
    IF zone # NoZone /\ prefix # NoPrefix
    THEN [dir |-> <<zone>> \o prefix.dir, part |-> prefix.part]
    ELSE IF zone # NoZone THEN [dir |-> <<zone>>, part |-> ""]
    ELSE IF prefix # NoPrefix THEN prefix
    ELSE [dir |-> <<>>, part |-> ""]

\* s.startswith(p) for a segment s of a key and the beginnings of segments
\* that the calls of the model name
PrefixOf(p, s) ==
    \/ p = ""
    \/ p = s
    \/ p = "notes" /\ s \in {"notes.csv", "notes_1.csv"}
    \/ p = "proc" /\ s = "processed"

\* The store's Prefix filter: the key string starts with the prefix string
StartsWith(ref, full_prefix) ==
    LET n == Len(full_prefix.dir)
    IN /\ n <= Len(ref.dir)
       /\ \A m \in 1..n : ref.dir[m] = full_prefix.dir[m]
       /\ IF n < Len(ref.dir)
          THEN PrefixOf(full_prefix.part, ref.dir[n + 1])
          ELSE PrefixOf(full_prefix.part, NameStr(ref))

\* The wrong listing: the markers are not skipped
ListedWithMarkers(st, full_prefix, ref) ==
    /\ RefStr(ref) \in DOMAIN st
    /\ StartsWith(ref, full_prefix)

\* list_files: the store holds the key under the prefix, and the key is no
\* marker
Listed(st, full_prefix, ref) ==
    /\ RefStr(ref) \in DOMAIN st
    /\ StartsWith(ref, full_prefix)
    /\ ~IsMarker(ref)

\* The file information list_files gives for a key
FileInfo(ref) ==
    [key |-> RefStr(ref),
     zone |-> IF Len(ref.dir) > 0 THEN ref.dir[1] ELSE "unknown"]

\* S3DataLake.list_files(zone, prefix): the listed keys in the store's
\* order; a ClientError gives the empty list
list_files(st, zone, prefix, outcome) ==
    LET full_prefix == FullPrefix(zone, prefix)
        Test(ref) == Listed(st, full_prefix, ref)
        found == SelectSeq(LakeKeys, Test)
    IN [ret |-> IF outcome = "ok"
                THEN [n \in 1..Len(found) |-> FileInfo(found[n])]
                ELSE <<>>,
        err |-> IF outcome = "other_error" THEN "raise" ELSE "ok",
        s3 |-> <<S3Call("list_objects_v2", Join(full_prefix.dir) \o full_prefix.part)>>]

\* get_file_metadata returned None
NoInfo == [key |-> "", metadata |-> NoMetadata, none |-> TRUE]

\* S3DataLake.get_file_metadata(s3_key): the fields of head_object, or None
\* on a ClientError
get_file_metadata(st, key, outcome) ==
    IF key \notin DOMAIN st \/ outcome = "client_error" THEN NoInfo
    ELSE [key |-> key, metadata |-> st[key].metadata, none |-> FALSE]

\* S3DataLake.update_file_metadata(s3_key, metadata): head_object, then
\* copy_object of the object onto itself with Metadata=metadata and
\* MetadataDirective='REPLACE'; a ClientError of either call gives False
update_file_metadata(st, key, metadata, hout, cout) ==
    LET head == IF hout # "ok" THEN hout
                ELSE IF key \notin DOMAIN st THEN "client_error"
                ELSE "ok"
        replaced == (key :> [content |-> st[key].content, metadata |-> metadata]) @@ st
    IN IF head # "ok"
       THEN [ret |-> IF head = "client_error" THEN "False" ELSE "raise",
             st |-> st,
             s3 |-> <<S3Call("head_object", key)>>]
       ELSE [ret |-> CASE cout = "ok" -> "True"
                       [] cout = "client_error" -> "False"
                       [] OTHER -> "raise",
             st |-> IF cout = "ok" THEN replaced ELSE st,
             s3 |-> <<S3Call("head_object", key), S3Call("copy_object", key)>>]

\* The wrong test: a filter key the object lacks is passed over
MatchesPresentKeys(metadata, filters) ==
    \A f \in DOMAIN filters : f \in DOMAIN metadata => metadata[f] = filters[f]

\* for key, value in metadata_filters.items(): every filter key is in the
\* object's metadata with an equal value
Matches(metadata, filters) ==
    \A f \in DOMAIN filters : f \in DOMAIN metadata /\ metadata[f] = filters[f]

\* The head_object outcome of the n-th listed object when the fetch of
\* object fail.at fails with fail.kind (fail.at = 0: none fails)
HeadOutcome(fail, n) == IF n = fail.at THEN fail.kind ELSE "ok"

\* DataLakeInterface.search_files_by_metadata(metadata_filters, zone)
search_files_by_metadata(st, filters, zone, lout, fail) ==
    LET listing == list_files(st, zone, NoPrefix, lout)
        files == listing.ret
        \* the first fetch that raises something else than ClientError
        aborts == {n \in 1..Len(files) : HeadOutcome(fail, n) = "other_error"}
        last_fetch == IF listing.err = "raise" THEN 0
                      ELSE IF aborts = {} THEN Len(files)
                      ELSE CHOOSE n \in aborts : \A m \in aborts : n <= m
        Info(n) == get_file_metadata(st, files[n].key, HeadOutcome(fail, n))
        Hit(info) == ~Info(CHOOSE n \in 1..Len(files) : files[n] = info).none
                     /\ Matches(Info(CHOOSE n \in 1..Len(files) : files[n] = info).metadata,
                                filters)
    IN [ret |-> IF listing.err = "raise" \/ aborts # {} THEN <<>>
                ELSE SelectSeq(files, Hit),
        s3 |-> listing.s3
               \o [n \in 1..last_fetch |-> S3Call("head_object", files[n].key)],
        listed |-> files]

\* The mime type download_and_parse gives for an extension
MimeType(ext) ==
    CASE ext \in {".csv", ".tsv"} -> "text/csv"
      [] ext = ".json" -> "application/json"
      [] ext \in {".yaml", ".yml"} -> "application/yaml"
      [] ext \in {".xlsx", ".xls"} ->
            "application/vnd.openxmlformats-officedocument.spreadsheetml.sheet"
      [] ext = ".txt" -> "text/plain"
      [] ext = ".pdf" -> "application/pdf"
      [] OTHER -> "application/octet-stream"

\* os.path.join(self.temp_dir, name)
TempPath(name) == "temp/" \o NameStr(name)

\* S3FileUtils.download_and_parse(s3_key) with the temporary file it
\* leaves: (None, None) when the download fails or the parser raises
ParseOp(st, files, key, outcome) ==
    LET s3_key == RefStr(key)
        local_path == TempPath(BaseName(key))
        downloaded == s3_key \in DOMAIN st /\ outcome # "download_error"
        raised == downloaded /\ HasParser(key.ext) /\ outcome = "parser_error"
    IN [content |-> download_and_parse(st, s3_key, key.ext, outcome),
        mime |-> IF downloaded /\ ~raised THEN MimeType(key.ext) ELSE "None",
        \* os.remove(local_path) follows the parser inside the try
        tmp |-> IF ~downloaded THEN files
                ELSE IF raised THEN files \cup {local_path}
                ELSE files \ {local_path},
        s3 |-> <<S3Call("download_file", s3_key)>>]

\* A saver that raises has already created the local file: the json, yaml
\* and text savers open the file before they write, the csv and excel
\* savers test the content first
SaverOpensFirst(ext) == ext \in {".json", ".yaml", ".yml", ".txt"}

\* S3FileUtils.save_and_upload(content, file_name, zone, None, metadata)
\* with the temporary file it leaves
SaveOp(st, files, content, file_name, zone, metadata, outcome) ==
    LET ext == file_name.ext
        local_path == TempPath(file_name)
        key == Key(zone, file_name)
        success == upload_file(zone, outcome)
    IN IF ~HasSaver(ext)
       THEN [ret |-> NoKey, st |-> st, tmp |-> files, s3 |-> <<>>]
       ELSE IF ~SaverAccepts(ext, content.shape)
       THEN [ret |-> NoKey, st |-> st,
             tmp |-> IF SaverOpensFirst(ext) THEN files \cup {local_path} ELSE files,
             s3 |-> <<>>]
       ELSE [ret |-> IF success = "True" THEN key ELSE NoKey,
             st |-> IF success = "True"
                    THEN (key :> [content |-> Written(ext, content),
                                  metadata |-> metadata]) @@ st
                    ELSE st,
             \* os.remove(local_path) follows the upload inside the try
             tmp |-> IF success = "raise" THEN files \cup {local_path}
                     ELSE files \ {local_path},
             s3 |-> IF ValidZone(zone) THEN <<S3Call("upload_file", key)>> ELSE <<>>]

\* S3DataLake._ensure_data_lake_exists on a bucket that exists: head_bucket
\* answers or is denied (the error is raised again); the lifecycle rules
\* are put, then one marker per zone
ensure_data_lake_exists(st, head) ==
    IF head # "ok"
    THEN [ret |-> "raise", st |-> st, s3 |-> <<S3Call("head_bucket", "")>>]
    ELSE [ret |-> "None",
          st |-> [key \in {RefStr(Marker(<<zones[z]>>)) : z \in 1..Len(zones)} |->
                     EmptyObject] @@ st,
          s3 |-> <<S3Call("head_bucket", ""),
                   S3Call("put_bucket_lifecycle_configuration", "")>>
                 \o [z \in 1..Len(zones) |->
                        S3Call("put_object", RefStr(Marker(<<zones[z]>>)))]]

\* mock_s3.put_object.call_count of a list of calls
PutCount(s3) == Cardinality({n \in 1..Len(s3) : s3[n].api = "put_object"})

\* The values save_and_upload last wrote, for the keys that still hold them
Kept(st, st2) ==
    [x \in {y \in DOMAIN given : y \in DOMAIN st2 /\ y \in DOMAIN st /\ st2[y] = st[y]}
        |-> given[x]]

---------------------------------------------------------------------------
(* The calls made on the data lake: their arguments, and which of them a  *)
(* failure of the store or of a parser is tried on                         *)

FolderOut == [dir |-> <<"b">>, stem |-> "out", ext |-> ".csv"]

StepOutput == [dir |-> <<"processed">>, stem |-> "notes_1", ext |-> ".csv"]

Gone == [dir |-> <<"processed">>, stem |-> "gone", ext |-> ".csv"]

\* upload_file(local, zone, s3_file_path, metadata) of the one local file
UploadCalls ==
    { [zone |-> "curated", path |-> NoRef, metadata |-> NoMetadata],
      [zone |-> "curated", path |-> FolderOut, metadata |-> [processor |-> "enrich"]],
      [zone |-> "archive", path |-> NoRef, metadata |-> NoMetadata] }

\* move_file(source_key, target_zone, target_path)
MoveCalls ==
    { [source |-> StepOutput, zone |-> "processed", path |-> NoRef],
      [source |-> StepOutput, zone |-> "curated", path |-> NoRef],
      [source |-> StepOutput, zone |-> "curated", path |-> FolderOut],
      [source |-> StepOutput, zone |-> "archive", path |-> NoRef],
      [source |-> Gone, zone |-> "curated", path |-> NoRef] }

\* create_folder(zone, folder_path): 'b' and 'b/'
FolderCalls ==
    { [zone |-> z, folder |-> [segs |-> <<"b">>, slash |-> s]] :
        z \in {"curated", "archive"}, s \in BOOLEAN }

\* bulk_upload(directory, zone, recursive) on a platform whose path
\* separator is sep
BulkCalls ==
    { [zone |-> "curated", recursive |-> TRUE, sep |-> "/"],
      [zone |-> "curated", recursive |-> FALSE, sep |-> "/"],
      [zone |-> "curated", recursive |-> TRUE, sep |-> "\\"],
      [zone |-> "archive", recursive |-> TRUE, sep |-> "/"] }

\* At most one upload of a bulk_upload fails
BulkFails ==
    {[at |-> 0, kind |-> "ok"]}
    \cup {[at |-> n, kind |-> e] :
             n \in 1..Len(DirectoryFiles), e \in {"client_error", "other_error"}}

\* update_file_metadata(s3_key, metadata): a mapping that overrides one
\* stored entry, one that adds an entry, and a key the store does not hold
UpdateCalls ==
    { [key |-> StepOutput, metadata |-> [processor |-> "enrich"]],
      [key |-> StepOutput, metadata |-> [reviewed |-> "yes"]],
      [key |-> Gone, metadata |-> [reviewed |-> "yes"]] }

\* list_files(zone, prefix): everything, a zone, a folder of a zone ('b/'),
\* the beginning of a file name, the beginning of a zone name
ListCalls ==
    { [zone |-> NoZone, prefix |-> NoPrefix],
      [zone |-> "processed", prefix |-> NoPrefix],
      [zone |-> "curated", prefix |-> [dir |-> <<"b">>, part |-> ""]],
      [zone |-> "processed", prefix |-> [dir |-> <<>>, part |-> "notes"]],
      [zone |-> NoZone, prefix |-> [dir |-> <<>>, part |-> "proc"]] }

\* search_files_by_metadata(metadata_filters, zone)
FilterArgs ==
    { NoMetadata,
      [processor |-> "dedupe"],
      [processor |-> "dedupe", processing_step |-> "step_1"] }

SearchCalls == {[filters |-> f, zone |-> z] : f \in FilterArgs, z \in {NoZone, "processed"}}

\* At most one metadata fetch of a search fails
HeadFails ==
    {[at |-> 0, kind |-> "ok"]}
    \cup {[at |-> n, kind |-> e] : n \in 1..2, e \in {"client_error", "other_error"}}

\* download_and_parse(s3_key)
ParseKeys ==
    { StepOutput, Gone, [dir |-> <<"processed">>, stem |-> "blob", ext |-> ".bin"] }
    \cup {[dir |-> <<"processed">>, stem |-> "out", ext |-> e] :
             e \in {".csv", ".json", ".xlsx", ".txt"}}

\* save_and_upload(content, file_name, zone): each format with a value of
\* its natural shape and with values of other shapes
SaveValue(shape) == [shape |-> shape, origin |-> "given", trail |-> <<>>]

SaveCalls ==
    { [content |-> SaveValue(c[1]), name |-> [stem |-> "out", ext |-> c[2]],
       zone |-> c[3]] :
        c \in { <<"records", ".csv", "processed">>, <<"empty", ".csv", "processed">>,
                <<"text", ".csv", "processed">>, <<"records", ".csv", "archive">>,
                <<"tree", ".json", "processed">>, <<"records", ".json", "processed">>,
                <<"dataframe", ".json", "processed">>,
                <<"sheets", ".xlsx", "processed">>, <<"records", ".xlsx", "processed">>,
                <<"text", ".xlsx", "processed">>,
                <<"text", ".txt", "processed">>, <<"tree", ".txt", "processed">>,
                <<"text", ".bin", "processed">> } }

\* The shape values of a format have when they are read back from it
NaturalShape(ext) == ParsedShape(ext)

\* Whether a failure is tried on a call: on the plain calls only
Plain(call) == call.path = NoRef /\ ValidZone(call.zone)

---------------------------------------------------------------------------
(* A constructed data lake and the operations called on it *)

\* After S3DataLake(bucket_name) on an existing bucket: __init__ has
\* called _ensure_data_lake_exists once
LakeInit ==
    /\ input_files = <<>>
    /\ process_funcs = <<>>
    /\ pc = "idle"
    /\ k = 1
    /\ i = 0
    /\ current_content = NoContent
    /\ current_zone = "raw"
    /\ current_path = NoPath
    /\ results = <<>>
    /\ exc = "none"
    /\ calls = <<>>
    /\ clock = 0
    /\ runs = <<>>
    /\ faults = 0
    /\ LET r == ensure_data_lake_exists(ExistingObjects, "ok")
       IN /\ store = r.st
          /\ last = [op |-> "__init__", ret |-> r.ret, s3 |-> r.s3,
                     before |-> ExistingObjects]
          /\ put_calls = PutCount(r.s3)
    /\ ops = 0
    /\ tmp = {}
    /\ given = NoMetadata

\* The data lake is constructed and may be called once more
Ready == pc = "idle" /\ ops < MaxOps

\* One operation returns: what it was called with and what it gave is
\* kept, and the store, the temporary files and the counters move on
Called(rec, st2, files2, given2) ==
    /\ ops' = ops + 1
    /\ last' = rec @@ [before |-> store]
    /\ store' = st2
    /\ tmp' = files2
    /\ given' = given2
    /\ put_calls' = put_calls + PutCount(rec.s3)
    /\ UNCHANGED callvars

UploadFile ==
    /\ Ready
    /\ \E local \in LocalRefs, call \in UploadCalls, outcome \in UploadOutcomes :
        LET r == UploadFileOp(store, local, call.zone, call.path, call.metadata,
                              outcome)
        IN /\ outcome # "ok" => Plain(call)
           /\ Called([op |-> "upload_file", zone |-> call.zone, ret |-> r.ret,
                      s3 |-> r.s3, local |-> local, path |-> call.path,
                      metadata |-> call.metadata, outcome |-> outcome],
                     r.st, tmp, Kept(store, r.st))

MoveFile ==
    /\ Ready
    /\ \E call \in MoveCalls, cout \in UploadOutcomes, dout \in UploadOutcomes :
        LET r == move_file(store, call.source, call.zone, call.path, cout, dout)
            target == KeyRef(call.zone,
                             IF call.path = NoRef
                             THEN [dir |-> <<>>, stem |-> call.source.stem,
                                   ext |-> call.source.ext]
                             ELSE call.path)
        IN /\ cout # "ok" => dout = "ok"
           /\ (cout # "ok" \/ dout # "ok") =>
                 /\ Plain(call)
                 /\ RefStr(call.source) \in DOMAIN store
                 /\ target # call.source
           /\ Called([op |-> "move_file", zone |-> call.zone, ret |-> r.ret,
                      s3 |-> r.s3, source_key |-> RefStr(call.source),
                      target_key |-> RefStr(target), cout |-> cout, dout |-> dout],
                     r.st, tmp, Kept(store, r.st))

CreateFolder ==
    /\ Ready
    /\ \E call \in FolderCalls, outcome \in UploadOutcomes :
        LET r == create_folder(store, call.zone, call.folder, outcome)
        IN /\ outcome # "ok" => (ValidZone(call.zone) /\ ~call.folder.slash)
           /\ Called([op |-> "create_folder", zone |-> call.zone, ret |-> r.ret,
                      s3 |-> r.s3],
                     r.st, tmp, Kept(store, r.st))

BulkUpload ==
    /\ Ready
    /\ \E call \in BulkCalls, fail \in BulkFails :
        LET r == bulk_upload(store, call.zone, call.recursive, call.sep, fail)
        IN /\ fail.at # 0 =>
                 (call.zone = "curated" /\ call.recursive /\ call.sep = "/")
           /\ Called([op |-> "bulk_upload", zone |-> call.zone,
                      recursive |-> call.recursive, sep |-> call.sep,
                      fail |-> fail, ret |-> r.ret, s3 |-> r.s3],
                     r.st, tmp, Kept(store, r.st))

UpdateFileMetadata ==
    /\ Ready
    /\ \E call \in UpdateCalls, hout \in UploadOutcomes, cout \in UploadOutcomes :
        LET r == update_file_metadata(store, RefStr(call.key), call.metadata,
                                      hout, cout)
        IN /\ hout # "ok" => cout = "ok"
           /\ (hout # "ok" \/ cout # "ok") =>
                 /\ RefStr(call.key) \in DOMAIN store
                 /\ call.metadata = [reviewed |-> "yes"]
           /\ Called([op |-> "update_file_metadata", key |-> RefStr(call.key),
                      metadata |-> call.metadata, ret |-> r.ret, s3 |-> r.s3],
                     r.st, tmp, Kept(store, r.st))

ListFiles ==
    /\ Ready
    /\ \E call \in ListCalls, outcome \in UploadOutcomes :
        LET r == list_files(store, call.zone, call.prefix, outcome)
        IN /\ outcome # "ok" => (call.zone = "processed" /\ call.prefix = NoPrefix)
           /\ Called([op |-> "list_files", zone |-> call.zone,
                      prefix |-> call.prefix, outcome |-> outcome,
                      ret |-> r.ret, err |-> r.err, s3 |-> r.s3],
                     store, tmp, given)

SearchFiles ==
    /\ Ready
    /\ \E call \in SearchCalls, lout \in UploadOutcomes, fail \in HeadFails :
        LET r == search_files_by_metadata(store, call.filters, call.zone, lout, fail)
        IN /\ lout # "ok" => fail.at = 0
           /\ fail.at <= Len(r.listed)
           /\ (lout # "ok" \/ fail.at # 0) =>
                 (call.zone # NoZone /\ call.filters = [processor |-> "dedupe"])
           /\ Called([op |-> "search_files_by_metadata", zone |-> call.zone,
                      filters |-> call.filters, ret |-> r.ret, s3 |-> r.s3,
                      listed |-> r.listed, lout |-> lout, fail |-> fail],
                     store, tmp, given)

DownloadAndParse ==
    /\ Ready
    /\ \E key \in ParseKeys, outcome \in ParseOutcomes :
        LET r == ParseOp(store, tmp, key, outcome)
        IN /\ (key = Gone \/ RefStr(key) \in DOMAIN store)
           /\ outcome = "parser_error" => HasParser(key.ext)
           /\ outcome = "download_error" => key = StepOutput
           /\ Called([op |-> "download_and_parse", key |-> RefStr(key),
                      ext |-> key.ext, outcome |-> outcome,
                      local_path |-> TempPath(BaseName(key)),
                      content |-> r.content, mime |-> r.mime, s3 |-> r.s3],
                     store, r.tmp, given)

SaveAndUpload ==
    /\ Ready
    /\ \E call \in SaveCalls, outcome \in UploadOutcomes :
        LET r == SaveOp(store, tmp, call.content, call.name, call.zone, NoMetadata,
                        outcome)
        IN /\ outcome # "ok" =>
                 /\ ValidZone(call.zone)
                 /\ call.name.ext = ".csv"
                 /\ call.content.shape = "records"
           /\ Called([op |-> "save_and_upload", zone |-> call.zone,
                      content |-> call.content, ext |-> call.name.ext,
                      local_path |-> TempPath(call.name),
                      outcome |-> outcome, ret |-> r.ret, s3 |-> r.s3],
                     r.st, r.tmp,
                     IF r.ret # NoKey THEN (r.ret :> call.content) @@ Kept(store, r.st)
                     ELSE Kept(store, r.st))

EnsureDataLakeExists ==
    /\ Ready
    /\ \E head \in {"ok", "client_error"} :
        LET r == ensure_data_lake_exists(store, head)
        IN Called([op |-> "_ensure_data_lake_exists", ret |-> r.ret, s3 |-> r.s3,
                   first |-> (ops = 0)],
                  r.st, tmp, Kept(store, r.st))

LakeNext ==
    \/ UploadFile
    \/ MoveFile
    \/ CreateFolder
    \/ SearchFiles
    \/ DownloadAndParse
    \/ SaveAndUpload
    \/ EnsureDataLakeExists

LakeSpec == LakeInit /\ [][LakeNext]_vars

\* The operations that fill, label and list the objects of the data lake,
\* called on a constructed data lake
CatalogNext ==
    \/ UploadFile
    \/ CreateFolder
    \/ BulkUpload
    \/ UpdateFileMetadata
    \/ ListFiles

CatalogSpec == LakeInit /\ [][CatalogNext]_vars

---------------------------------------------------------------------------
(* Vocabulary of the properties *)

Returned == pc = "returned"

Inputs == 1..Len(input_files)

TotalSteps == Len(process_funcs)

AllLocal == \A j \in Inputs : Exists(input_files[j])

\* The positions in calls of the upload calls issued for step m of input j
\* (m = 0: the upload of the local file to raw)
CallsOf(j, m) == {c \in 1..Len(calls) : calls[c].input = j /\ calls[c].step = m}

StepCallsOf(j) == {c \in 1..Len(calls) : calls[c].input = j /\ calls[c].step >= 1}

\* Input j has been through every step: each function returned and each
\* output was written
AllStepsSucceeded(j) ==
    /\ j <= Len(runs)
    /\ runs[j].steps = [m \in 1..TotalSteps |-> "ok"]

\* The second step function raised for input j
SecondStepRaised(j) ==
    /\ j <= Len(runs)
    /\ Len(runs[j].steps) = 2
    /\ runs[j].steps[2] = "raised"

\* Some step of input j failed: its function raised or its write failed
SomeStepFailed(j) ==
    /\ j <= Len(runs)
    /\ \E m \in 1..Len(runs[j].steps) : runs[j].steps[m] # "ok"

\* The inputs other than f, in input order
Others(f) == SelectSeq([j \in Inputs |-> j], LAMBDA j : j # f)

---------------------------------------------------------------------------
(* C1: partial-failure isolation *)

\* C1: in a returned call on local-file inputs with at least two steps,
\* if the second step raised for one input and every step succeeded for
\* all the others, the returned list holds exactly one key per other
\* input, in input order, each the key of that input's last write, and no
\* key for the failing input.
C1_PartialFailureIsolation ==
    (Returned /\ AllLocal /\ TotalSteps >= 2) =>
        \A f \in Inputs :
            (SecondStepRaised(f) /\ \A j \in Inputs \ {f} : AllStepsSucceeded(j)) =>
                /\ Len(results) = Len(input_files) - 1
                /\ \A p \in 1..Len(results) :
                      \E c \in CallsOf(Others(f)[p], TotalSteps) :
                          calls[c].ok /\ calls[c].key = results[p]
                /\ runs[f].reported = <<>>

\* A batch of three local files whose middle input failed at its second step
C1_Witness ==
    /\ Returned /\ AllLocal /\ TotalSteps >= 2
    /\ Len(input_files) = 3
    /\ SecondStepRaised(2)
    /\ AllStepsSucceeded(1)
    /\ AllStepsSucceeded(3)
    /\ Len(results) = 2

---------------------------------------------------------------------------
(* C2: the call always returns *)

---------------------------------------------------------------------------
(* C3: the result-inclusion rule *)

\* The zone input j starts in
StartZoneOf(j) ==
    IF Exists(input_files[j]) THEN "raw" ELSE StartZone(input_files[j])

\* The position in calls of the last successful step write of input j
LastWrite(j) ==
    CHOOSE c \in StepCallsOf(j) :
        calls[c].ok /\ \A d \in StepCallsOf(j) : calls[d].ok => d <= c

HasWrite(j) == \E c \in StepCallsOf(j) : calls[c].ok

\* The zone and path input j's run ends with: those of its last
\* successful step, or its starting ones
FinalZone(j) == IF HasWrite(j) THEN calls[LastWrite(j)].zone ELSE StartZoneOf(j)

FinalPath(j) ==
    IF HasWrite(j) THEN NameStr(calls[LastWrite(j)].name)
    ELSE NameStr(BaseName(input_files[j]))

\* Input j's run is over
Handled(j) == j < k

---------------------------------------------------------------------------
(* C4: a failed input is not reported *)

\* C4: an input for which some step function raised or some step's write
\* failed contributes no entry to the list, whatever the number of steps
\* and the position of the failing step.
C4_FailedInputNotReported ==
    \A j \in Inputs :
        (Handled(j) /\ SomeStepFailed(j)) => runs[j].reported = <<>>

---------------------------------------------------------------------------
(* C5: the step-to-zone mapping *)

\* C5: with at least two steps, every write issued for step i goes to
\* 'processed' when i = 0, to 'curated' when i is the last index, and to
\* 'enriched' for every index in between; two writes for the same index
\* go to the same zone.
C5_StepZones ==
    TotalSteps >= 2 =>
        /\ \A c \in 1..Len(calls) :
              calls[c].step >= 1 =>
                  /\ calls[c].step = 1 => calls[c].zone = "processed"
                  /\ calls[c].step = TotalSteps => calls[c].zone = "curated"
                  /\ (1 < calls[c].step /\ calls[c].step < TotalSteps) =>
                        calls[c].zone = "enriched"
        /\ \A c, d \in 1..Len(calls) :
              (calls[c].step = calls[d].step /\ calls[c].step >= 1) =>
                  calls[c].zone = calls[d].zone

\* A run of four steps wrote to processed, enriched, enriched and curated
C5_Witness ==
    /\ TotalSteps = 4
    /\ \E j \in Inputs :
          /\ AllStepsSucceeded(j)
          /\ \E c1 \in CallsOf(j, 1), c2 \in CallsOf(j, 2),
                c3 \in CallsOf(j, 3), c4 \in CallsOf(j, 4) :
                <<calls[c1].zone, calls[c2].zone, calls[c3].zone, calls[c4].zone>>
                    = <<"processed", "enriched", "enriched", "curated">>

---------------------------------------------------------------------------
(* C6: single-step pipelines report nothing *)

---------------------------------------------------------------------------
(* C7: the name of a step's output *)

\* The stem the name of call c is built on: the original input's for the
\* first step, the previous step's output's for a later one
PreviousStem(c) ==
    IF calls[c].step = 1 THEN input_files[calls[c].input].stem
    ELSE calls[CHOOSE d \in CallsOf(calls[c].input, calls[c].step - 1) :
                   calls[d].ok].name.stem

\* C7 as stated: the object written by step i of an input is named
\* '<base>_<i+1>_<timestamp><ext>' with <base> and <ext> those of the
\* original input file.
C7_NameFromOriginalBase ==
    \A c \in 1..Len(calls) :
        calls[c].step >= 1 =>
            calls[c].key =
                calls[c].zone \o "/" \o input_files[calls[c].input].stem \o "_"
                \o ToString(calls[c].step) \o "_" \o calls[c].ts
                \o input_files[calls[c].input].ext

\* C7 as amended: the object written by step i is named
\* '<base>_<i+1>_<timestamp><ext>' where <ext> is the original input's
\* extension and <base> is the base name of the previous step's output
\* (of the original input for step 0); notes.csv run through two
\* successful steps gives exactly the writes processed/notes_1_<ts>.csv
\* and curated/notes_1_<ts>_2_<ts'>.csv, and the list [the second key].
C7_NameFromPreviousOutput ==
    /\ \A c \in 1..Len(calls) :
          calls[c].step >= 1 =>
              calls[c].key =
                  calls[c].zone \o "/" \o PreviousStem(c) \o "_"
                  \o ToString(calls[c].step) \o "_" \o calls[c].ts
                  \o input_files[calls[c].input].ext
    /\ ( /\ Returned
         /\ input_files = <<[dir |-> <<"data">>, stem |-> "notes", ext |-> ".csv"]>>
         /\ TotalSteps = 2
         /\ AllStepsSucceeded(1) ) =>
           \E c1 \in CallsOf(1, 1), c2 \in CallsOf(1, 2) :
               /\ StepCallsOf(1) = {c1, c2}
               /\ calls[c1].key = "processed/notes_1_" \o calls[c1].ts \o ".csv"
               /\ calls[c2].key = "curated/notes_1_" \o calls[c1].ts \o "_2_"
                                  \o calls[c2].ts \o ".csv"
               /\ results = <<calls[c2].key>>

\* notes.csv went through two successful steps and the call returned
C7_Witness ==
    /\ Returned
    /\ input_files = <<[dir |-> <<"data">>, stem |-> "notes", ext |-> ".csv"]>>
    /\ TotalSteps = 2
    /\ AllStepsSucceeded(1)
    /\ Len(results) = 1

---------------------------------------------------------------------------
(* C8: output keys of one input do not collide *)

\* C8: two writes issued for different steps of the same input with the
\* same timestamp have different keys.
C8_KeysDistinct ==
    \A j \in Inputs :
        \A c, d \in StepCallsOf(j) :
            (c # d /\ calls[c].ts = calls[d].ts) => calls[c].key # calls[d].key

\* Four steps of one input succeeded in the same second, two of them
\* writing to 'enriched'
C8_Witness ==
    /\ TotalSteps = 4
    /\ \E j \in Inputs :
          /\ AllStepsSucceeded(j)
          /\ \A c, d \in StepCallsOf(j) : calls[c].ts = calls[d].ts
          /\ \E c, d \in StepCallsOf(j) : c # d /\ calls[c].zone = calls[d].zone

---------------------------------------------------------------------------
(* C9: lineage metadata *)

\* The processor recorded for a step function
ProcessorOf(m) ==
    IF process_funcs[m].named THEN process_funcs[m].name ELSE "unknown"

\* C9: every write issued for step i of an input carries exactly the
\* metadata original_file = the reference the caller passed,
\* processing_step = 'step_<i+1>', processor = the function's name or
\* 'unknown'; every object stored under a key written by a step carries
\* the lineage of a write to that key.
C9_LineageMetadata ==
    /\ \A c \in 1..Len(calls) :
          calls[c].step >= 1 =>
              /\ calls[c].zone \in {"processed", "enriched", "curated"}
              /\ calls[c].metadata =
                     [original_file |-> RefStr(input_files[calls[c].input]),
                      processing_step |-> "step_" \o ToString(calls[c].step),
                      processor |-> ProcessorOf(calls[c].step)]
              /\ calls[c].ok =>
                     \E d \in 1..Len(calls) :
                         /\ calls[d].key = calls[c].key
                         /\ calls[d].ok
                         /\ store[calls[c].key].metadata = calls[d].metadata

\* An output of a named function and one of an unnamed function are stored
C9_Witness ==
    /\ \E c \in 1..Len(calls) :
          calls[c].step >= 1 /\ calls[c].ok
          /\ store[calls[c].key].metadata.processor = "unknown"
    /\ \E c \in 1..Len(calls) :
          calls[c].step >= 1 /\ calls[c].ok
          /\ store[calls[c].key].metadata.processor = "dedupe"
          /\ store[calls[c].key].metadata.original_file = "data/notes.csv"

---------------------------------------------------------------------------
(* C10: the store writes of a call *)

\* Step m of input j succeeded: its function returned and its output was
\* written
StepSucceeded(j, m) ==
    j <= Len(runs) /\ m <= Len(runs[j].steps) /\ runs[j].steps[m] = "ok"

\* Step m of input j got as far as the store: its function returned and
\* its output was serialized
StepReachedStore(j, m) ==
    j <= Len(runs) /\ m <= Len(runs[j].steps)
    /\ runs[j].steps[m] \in {"ok", "rejected"}

\* C10 as stated: the store writes of a call are exactly one write to
\* 'raw' per input that is an existing local path and one write to the
\* target zone per step that succeeds.
C10_WritesExactlySucceededSteps ==
    Returned =>
        \A j \in Inputs :
            /\ Cardinality(CallsOf(j, 0)) = IF Exists(input_files[j]) THEN 1 ELSE 0
            /\ \A m \in 1..TotalSteps :
                  Cardinality(CallsOf(j, m)) = IF StepSucceeded(j, m) THEN 1 ELSE 0

\* C10 as amended: the store write calls of a call are exactly one write
\* to 'raw' per input that is an existing local path and one write to the
\* target zone per step whose function returned and whose output was
\* serialized, whether or not the store accepts it; an object-key input
\* causes no write to 'raw', and a step that raised, could not be
\* serialized or was skipped after an abort causes none.
C10_WritesExactlyAttemptedSteps ==
    Returned =>
        \A j \in Inputs :
            /\ Cardinality(CallsOf(j, 0)) = IF Exists(input_files[j]) THEN 1 ELSE 0
            /\ \A c \in CallsOf(j, 0) : calls[c].zone = "raw"
            /\ \A m \in 1..TotalSteps :
                  /\ Cardinality(CallsOf(j, m)) = IF StepReachedStore(j, m) THEN 1 ELSE 0
                  /\ \A c \in CallsOf(j, m) :
                        calls[c].zone \in {"processed", "enriched", "curated"}
            /\ \A c \in 1..Len(calls) : calls[c].input = j => calls[c].step <= TotalSteps

\* A returned batch with a local input and an object-key input, one step
\* rejected by the store and one step skipped after it
C10_Witness ==
    /\ Returned
    /\ TotalSteps >= 2
    /\ \E j \in Inputs : Exists(input_files[j]) /\ AllStepsSucceeded(j)
    /\ \E j \in Inputs :
          /\ ~Exists(input_files[j])
          /\ runs[j].steps = <<"rejected">>
          /\ CallsOf(j, 0) = {}
          /\ CallsOf(j, 2) = {}

---------------------------------------------------------------------------
(* C11: zone validation of the store operations *)

\* The last operation called is one of those that take a zone to write to
TakesZone == last.op \in {"upload_file", "move_file", "create_folder"}

\* C11: upload_file, move_file and create_folder called with a zone (for
\* move_file, a target zone) that is not in the catalog return False
\* without issuing any call to the store, and leave the store as it was.
C11_InvalidZoneRejected ==
    (TakesZone /\ last.zone \notin ZoneSet) =>
        /\ last.ret = "False"
        /\ last.s3 = <<>>
        /\ store = last.before

\* move_file of an object the store holds to a zone outside the catalog,
\* after an upload to the same zone
C11_Witness ==
    /\ last.op = "move_file"
    /\ last.zone = "archive"
    /\ last.source_key \in DOMAIN store
    /\ last.ret = "False"
    /\ ops >= 2

---------------------------------------------------------------------------
(* Inputs without content, failed writes, and the order of the work *)

\* Resolving input j was tried and gave no content
NoContentFor(j) == j <= Len(runs) /\ runs[j].tried /\ runs[j].parsed = NoContent

\* C12: an input whose resolution yields no content (the download fails,
\* the parser raises, or the extension has no parser) has no step function
\* invoked on it, no step output written, and no entry in the result;
\* every later input is still begun, so a returned call has run them all.
C12_NoContentSkipsInput ==
    /\ \A j \in Inputs :
          (NoContentFor(j) /\ (Handled(j) \/ pc \in {"step", "finish"})) =>
              /\ runs[j].steps = <<>>
              /\ runs[j].received = <<>>
              /\ StepCallsOf(j) = {}
              /\ runs[j].reported = <<>>
              /\ j = k => pc \notin {"step", "finish"}
    /\ Returned => Len(runs) = Len(input_files)

\* A returned call whose first input has no parser for its extension and
\* whose second input went through every step and is in the result
C12_Witness ==
    /\ Returned
    /\ TotalSteps >= 2
    /\ Len(input_files) >= 2
    /\ input_files[1].ext = ".bin"
    /\ RefStr(input_files[1]) \in DOMAIN store
    /\ NoContentFor(1)
    /\ AllStepsSucceeded(2)
    /\ runs[2].reported # <<>>

\* A step of input j whose output was not written: the store rejected it,
\* or it could not be serialized
WriteFailed(j, m) ==
    j <= Len(runs) /\ m <= Len(runs[j].steps)
    /\ runs[j].steps[m] \in {"rejected", "unsaved"}

\* The content input j's run holds after its last successful write, or the
\* parsed input when nothing was written
FinalContent(j) ==
    IF HasWrite(j) THEN calls[LastWrite(j)].content ELSE runs[j].parsed

\* C13: when writing a step's output fails (save_and_upload returns no
\* key), no later step function is applied to that input, the current
\* zone, path and content keep the values of the last successfully written
\* step (or the resolved input's), and processing continues with the next
\* input.
C13_FailedWriteStopsInput ==
    /\ \A j \in 1..Len(runs) : \A m \in 1..TotalSteps :
          WriteFailed(j, m) =>
              /\ Len(runs[j].steps) = m
              /\ Len(runs[j].received) = m
              /\ \A c \in StepCallsOf(j) : calls[c].step <= m
              /\ \A n \in 1..(m - 1) : runs[j].steps[n] = "ok"
              /\ (j = k /\ pc # "loop") =>
                    /\ pc = "finish"
                    /\ current_zone = FinalZone(j)
                    /\ NameStr(current_path) = FinalPath(j)
                    /\ current_content = FinalContent(j)
    /\ Returned => Len(runs) = Len(input_files)

\* A returned call of three steps or more whose first input had its
\* second step's write rejected after the first was written, and whose
\* second input went through every step
C13_Witness ==
    /\ Returned
    /\ TotalSteps >= 3
    /\ Len(input_files) >= 2
    /\ runs[1].steps = <<"ok", "rejected">>
    /\ FinalZone(1) = "processed"
    /\ AllStepsSucceeded(2)

\* The value the step-m function of input j returned, as it was handed to
\* the store
ReturnedBy(j, m) == calls[CHOOSE c \in CallsOf(j, m) : TRUE].content

\* C14: for each input the step functions are applied strictly in list
\* order, the first to the parsed content of the input and each later one
\* to exactly the value the step before it returned; inputs are handled one
\* at a time in input order, so every store call for an input precedes
\* every store call for the next one.
C14_StepsAndInputsInOrder ==
    /\ \A j \in 1..Len(runs) :
          /\ Len(runs[j].received) = Len(runs[j].steps)
          /\ \A m \in 1..Len(runs[j].received) :
                /\ m = 1 => runs[j].received[m] = runs[j].parsed
                /\ m > 1 =>
                      /\ CallsOf(j, m - 1) # {}
                      /\ runs[j].received[m] = ReturnedBy(j, m - 1)
                /\ runs[j].received[m].trail = [n \in 1..(m - 1) |-> n - 1]
                /\ runs[j].received[m].origin = RefStr(input_files[j])
                /\ \A c \in CallsOf(j, m) :
                      calls[c].metadata.processor = ProcessorOf(m)
    /\ \A c, d \in 1..Len(calls) :
          c < d =>
              \/ calls[c].input < calls[d].input
              \/ calls[c].input = calls[d].input /\ calls[c].step < calls[d].step
    /\ \A c \in 1..Len(calls) : calls[c].input <= Len(runs)

\* A returned call of three steps or more over a local input and an
\* object-key input that both went through every step
C14_Witness ==
    /\ Returned
    /\ TotalSteps >= 3
    /\ Len(input_files) = 2
    /\ Exists(input_files[1]) /\ ~Exists(input_files[2])
    /\ AllStepsSucceeded(1) /\ AllStepsSucceeded(2)
    /\ Len(calls) = 2 * TotalSteps + 1

---------------------------------------------------------------------------
(* C15: metadata search *)

Searched == last.op = "search_files_by_metadata"

\* The metadata the store holds for a listed object has every filter key
\* with an equal value
StoreMatches(info) ==
    LET metadata == store[info.key].metadata
    IN \A f \in DOMAIN last.filters :
          f \in DOMAIN metadata /\ metadata[f] = last.filters[f]

\* The keys of the metadata fetches of the last search, in order
FetchedKeys ==
    LET IsHead(c) == c.api = "head_object"
        heads == SelectSeq(last.s3, IsHead)
    IN [n \in 1..Len(heads) |-> heads[n].key]

\* The keys of the first n listed objects
ListedKeys(n) == [m \in 1..n |-> last.listed[m].key]

\* The metadata fetch of a listed object came back
FetchSucceeded(info) ==
    \E n \in 1..Len(last.listed) :
        last.listed[n] = info /\ HeadOutcome(last.fail, n) = "ok"

\* The search was cut short: the listing or a metadata fetch raised an
\* error that is no ClientError
CutShort ==
    \/ last.lout = "other_error"
    \/ last.fail.kind = "other_error" /\ last.fail.at \in 1..Len(last.listed)

\* C15 as stated: a search returns, in listing order, exactly the listed
\* objects whose metadata has every filter key with an exactly equal
\* value, and issues one metadata fetch per listed object.
C15_SearchExact ==
    Searched =>
        /\ last.ret = SelectSeq(last.listed, StoreMatches)
        /\ FetchedKeys = ListedKeys(Len(last.listed))

\* C15 as amended: a search returns, in listing order, exactly the listed
\* objects whose metadata fetch succeeded and whose metadata has every
\* filter key with an exactly equal value, and issues one metadata fetch
\* per listed object; when a fetch raises an error that is no ClientError
\* the scan stops at that object and the search returns the empty list.
C15_SearchExactOfFetched ==
    Searched =>
        LET Hit(info) == FetchSucceeded(info) /\ StoreMatches(info)
        IN IF CutShort
           THEN /\ last.ret = <<>>
                /\ FetchedKeys = ListedKeys(IF last.lout = "other_error" THEN 0
                                            ELSE last.fail.at)
           ELSE /\ last.ret = SelectSeq(last.listed, Hit)
                /\ FetchedKeys = ListedKeys(Len(last.listed))

\* A search of 'processed' for one filter over three listed objects: the
\* first has another value, the second matches but its fetch fails, the
\* third matches and is the one returned
C15_Witness ==
    /\ Searched
    /\ last.zone = "processed"
    /\ last.filters = [processor |-> "dedupe"]
    /\ Len(last.listed) = 3
    /\ ~StoreMatches(last.listed[1])
    /\ StoreMatches(last.listed[2])
    /\ last.fail = [at |-> 2, kind |-> "client_error"]
    /\ last.ret = <<last.listed[3]>>

---------------------------------------------------------------------------
(* C16: objects whose extension has no parser *)

\* The extensions the if/elif chain of download_and_parse names
ChainExts == {".csv", ".tsv", ".json", ".yaml", ".yml", ".xlsx", ".xls", ".txt", ".pdf"}

\* The last operation downloaded an object whose extension the chain does
\* not name, and went on to its final else
ParsedUnregistered ==
    /\ last.op = "download_and_parse"
    /\ last.ext \notin ChainExts
    /\ last.key \in DOMAIN store
    /\ last.outcome = "ok"

\* C16 as stated: parsing an object whose extension is not registered
\* yields the original bytes unchanged, tagged with the generic binary
\* content type.
C16_UnregisteredPassesThrough ==
    ParsedUnregistered =>
        /\ last.content = store[last.key].content
        /\ last.mime = "application/octet-stream"

\* C16 as amended: parsing an object whose extension is not registered
\* yields no content (None), tagged with the generic binary content type
\* 'application/octet-stream'.
C16_UnregisteredYieldsNone ==
    ParsedUnregistered =>
        /\ last.content = NoContent
        /\ last.mime = "application/octet-stream"

\* A '.bin' object the store holds has been downloaded and parsed
C16_Witness ==
    /\ ParsedUnregistered
    /\ last.ext = ".bin"
    /\ store[last.key].content.shape = "bytes"
    /\ last.content = NoContent
    /\ last.mime = "application/octet-stream"

---------------------------------------------------------------------------
(* C17: writing a value and reading it back *)

\* The formats with a saver and a parser
SupportedExts == {".csv", ".tsv", ".json", ".yaml", ".yml", ".xlsx", ".xls", ".txt"}

\* A value of the natural shape of a format: what its parser returns, an
\* empty list being a sequence of records too
OfNaturalShape(ext, shape) ==
    \/ shape = NaturalShape(ext)
    \/ shape = "empty" /\ NaturalShape(ext) = "records"

\* save_and_upload was handed a value of the natural shape of a supported
\* format, for a zone of the catalog, and the store took the upload
SavedNatural ==
    /\ last.op = "save_and_upload"
    /\ last.ext \in SupportedExts
    /\ OfNaturalShape(last.ext, last.content.shape)
    /\ last.zone \in ZoneSet
    /\ last.outcome = "ok"

\* download_and_parse read, without a failure, a key that still holds what
\* save_and_upload wrote from a value of the natural shape of its format
ReadBackNatural ==
    /\ last.op = "download_and_parse"
    /\ last.outcome = "ok"
    /\ last.key \in DOMAIN given
    /\ last.ext \in SupportedExts
    /\ OfNaturalShape(last.ext, given[last.key].shape)

\* C17: for each supported format and every value x of its natural
\* shape, save_and_upload writes x and returns a key, and download_and_parse
\* of that key returns a value equal to x.
C17_RoundTrip ==
    /\ SavedNatural => last.ret # NoKey
    /\ ReadBackNatural => last.content = given[last.key]

\* What does hold: a value that was written is read back equal
C17_ReadBackEqual == ReadBackNatural => last.content = given[last.key]

---------------------------------------------------------------------------
(* C18: the temporary local file *)

\* C18: after download_and_parse or save_and_upload has returned, on the
\* success path and on every failure path, the temporary local file the
\* call used no longer exists.
C18_TempFileRemoved ==
    last.op \in {"download_and_parse", "save_and_upload"} =>
        last.local_path \notin tmp

---------------------------------------------------------------------------
(* C19: move_file copies, then deletes *)

\* The last operation is a move_file to a zone of the catalog
Moved == last.op = "move_file" /\ last.zone \in ZoneSet

\* The copy of the last move_file did not go through: no call follows it
CopyFailed == Len(last.s3) = 1

---------------------------------------------------------------------------
(* C20: the zone markers put when the data lake is set up *)

\* _ensure_data_lake_exists was called right after the constructor, on the
\* bucket that exists, and returned
EnsuredAfterInit ==
    /\ last.op = "_ensure_data_lake_exists"
    /\ last.first
    /\ last.ret = "None"

\* The put_object calls of the last operation for the marker of a zone
MarkerPuts(zone) ==
    {n \in 1..Len(last.s3) : last.s3[n] = S3Call("put_object", zone \o "/")}

\* C20: after an S3DataLake has been constructed on an existing bucket and
\* _ensure_data_lake_exists has then been called, the store has received
\* exactly one marker put per zone of the catalog: 4 put_object calls in
\* all.
C20_FourMarkerPuts ==
    EnsuredAfterInit =>
        /\ \A z \in 1..Len(zones) : Cardinality(MarkerPuts(zones[z])) = 1
        /\ put_calls = Len(zones)

---------------------------------------------------------------------------
(* C21: upload_file *)

\* The last operation is an upload_file to a zone of the catalog
Uploaded == last.op = "upload_file" /\ last.zone \in ZoneSet

\* '<zone>/<s3_file_path, or the base name of the local path>'
UploadKey ==
    last.zone \o "/" \o (IF last.path = NoRef
                         THEN last.local.stem \o last.local.ext
                         ELSE RefStr(last.path))

\* C21: upload_file called with a zone of the catalog and a store that
\* accepts the upload performs exactly one store upload, to the key
\* '<zone>/<s3_file_path, or the base name of the local path when none is
\* given>', and returns True; when the store reports an error (ClientError)
\* it returns False.
C21_UploadOnceToZoneKey ==
    Uploaded =>
        /\ last.outcome = "ok" =>
              /\ last.s3 = <<S3Call("upload_file", UploadKey)>>
              /\ last.ret = "True"
              /\ UploadKey \in DOMAIN store
              /\ store[UploadKey].metadata = last.metadata
        /\ last.outcome = "client_error" =>
              /\ last.ret = "False"
              /\ store = last.before

\* The local file data/notes.csv has been uploaded to 'curated' without a
\* path: one upload to curated/notes.csv, and True
C21_Witness ==
    /\ Uploaded
    /\ last.local.dir = <<"data">>
    /\ last.path = NoRef
    /\ last.outcome = "ok"
    /\ last.ret = "True"
    /\ last.s3 = <<S3Call("upload_file", "curated/notes.csv")>>

---------------------------------------------------------------------------
(* C22: list_files *)

\* The last operation is a list_files that the store answered
ListedOk == last.op = "list_files" /\ last.outcome = "ok"

\* The positions in the store's listing order of the objects the store
\* holds under the requested prefix whose key does not end with '/'
FilesUnderPrefix ==
    {n \in 1..Len(LakeKeys) :
        /\ RefStr(LakeKeys[n]) \in DOMAIN store
        /\ StartsWith(LakeKeys[n], FullPrefix(last.zone, last.prefix))
        /\ ~(LakeKeys[n].stem = "" /\ LakeKeys[n].ext = "")}

C22_WitnessAll ==
    /\ ListedOk
    /\ last.zone = NoZone /\ last.prefix = NoPrefix
    /\ "raw/" \in DOMAIN store
    /\ last.ret[1] = [key |-> "blob.bin", zone |-> "unknown"]
    /\ Len(last.ret) >= 5

---------------------------------------------------------------------------
(* C23: update_file_metadata *)

\* The last operation is an update_file_metadata that returned True
Updated == last.op = "update_file_metadata" /\ last.ret = "True"

\* C23: update_file_metadata preserves the object's existing metadata:
\* after a successful update the object's metadata still contains every
\* previously stored key that the new mapping does not override, together
\* with the new entries, and the object's content is unchanged.
C23_MetadataPreserved ==
    Updated =>
        LET old == last.before[last.key].metadata
            now == store[last.key].metadata
        IN /\ \A f \in DOMAIN old \ DOMAIN last.metadata :
                 f \in DOMAIN now /\ now[f] = old[f]
           /\ \A f \in DOMAIN last.metadata :
                 f \in DOMAIN now /\ now[f] = last.metadata[f]
           /\ store[last.key].content = last.before[last.key].content

\* What does hold: after a successful update the object's metadata is the
\* new mapping alone and its content is unchanged
C23_MetadataReplaced ==
    Updated =>
        /\ store[last.key].metadata = last.metadata
        /\ store[last.key].content = last.before[last.key].content

---------------------------------------------------------------------------
(* C24: the content shapes the tabular and spreadsheet savers take *)

\* save_and_upload was handed a value for a tabular or spreadsheet file
\* name and a zone of the catalog, and the store took every upload
SavedTable ==
    /\ last.op = "save_and_upload"
    /\ last.ext \in {".csv", ".tsv", ".xlsx", ".xls"}
    /\ last.zone \in ZoneSet
    /\ last.outcome = "ok"

\* A sequence of uniform records (the empty one too) or a mapping of sheet
\* names to records
TableShape(shape) == shape \in {"records", "empty", "sheets"}

\* C24: serializing for a tabular (.csv/.tsv) or spreadsheet (.xlsx/.xls)
\* target succeeds for every sequence of uniform records, the empty
\* sequence included, and for every sheet-name-to-records mapping, and
\* fails (save_and_upload returns None and performs no store write) for
\* every other content shape.
C24_TableShapesSaved ==
    SavedTable =>
        IF TableShape(last.content.shape)
        THEN /\ last.ret # NoKey
             /\ last.ret \in DOMAIN store
        ELSE /\ last.ret = NoKey
             /\ last.s3 = <<>>
             /\ store = last.before

\* What does hold: a non-empty sequence of records is written for both
\* kinds of target, and a text is written for neither
C24_RecordsSavedTextRefused ==
    SavedTable =>
        /\ last.content.shape = "records" =>
              last.ret # NoKey /\ last.ret \in DOMAIN store
        /\ last.content.shape = "text" =>
              last.ret = NoKey /\ last.s3 = <<>> /\ store = last.before

---------------------------------------------------------------------------
(* C25: the returned keys are keys the call wrote *)

\* C25: every key in the list returned by process_data_pipeline is the
\* key of an object that this same call wrote successfully to the store,
\* for inputs given as local paths and for inputs given as object keys in
\* any zone and at any path depth, and for every step count including
\* zero.
C25_ResultsWereWritten ==
    \A p \in 1..Len(results) :
        \E c \in 1..Len(calls) : calls[c].ok /\ calls[c].key = results[p]

\* What does hold: the entry of an input that had a step output written is
\* the key of its last successful write
C25_WrittenResultsAreLastWrite ==
    \A j \in 1..Len(runs) :
        (HasWrite(j) /\ runs[j].reported # <<>>) =>
            runs[j].reported = <<calls[LastWrite(j)].key>>

---------------------------------------------------------------------------
(* C26: the current zone is a zone of the catalog *)

\* C26: at every point of every run of process_data_pipeline the run's
\* current zone is one of the four catalog zones (raw, processed,
\* enriched, curated), including for inputs given as object keys: a key
\* without '/' starts in 'raw', and a key whose first path segment is not
\* a catalog zone never makes the current zone a non-catalog value.
C26_ZoneInCatalog ==
    /\ current_zone \in ZoneSet
    /\ (pc \in {"check", "step", "finish"} /\ ~Exists(input_files[k])
           /\ input_files[k].dir = <<>> /\ runs[k].steps = <<>>) =>
          current_zone = "raw"

\* What does hold: a key without '/' starts in 'raw', and every zone a
\* step writes to is a zone of the catalog
C26_NoSlashStartsInRaw ==
    /\ (pc \in {"check", "step", "finish"} /\ ~Exists(input_files[k])
           /\ input_files[k].dir = <<>> /\ runs[k].steps = <<>>) =>
          current_zone = "raw"
    /\ \A c \in 1..Len(calls) : calls[c].zone \in ZoneSet

---------------------------------------------------------------------------
(* C27: the current zone moves forward only *)

\* The position of a zone in the catalog order
ZonePos(zone) == CHOOSE z \in 1..Len(zones) : zones[z] = zone

\* The zones input j's run has been in: its starting zone, then the zone of
\* each successful step write, never earlier than the one before
MovesForward(j) ==
    \A c \in StepCallsOf(j) :
        calls[c].ok =>
            /\ ZonePos(StartZoneOf(j)) <= ZonePos(calls[c].zone)
            /\ \A d \in StepCallsOf(j) :
                  (calls[d].ok /\ d < c) =>
                      ZonePos(calls[d].zone) <= ZonePos(calls[c].zone)

\* C27: within one input's run of process_data_pipeline the current zone
\* never moves to an earlier position in the catalog order raw < processed
\* < enriched < curated: each successful step leaves the run in the same or
\* a later zone than before it, for local-file inputs and for object-key
\* inputs starting in any zone.
C27_ZoneNeverMovesBack == \A j \in 1..Len(runs) : MovesForward(j)

\* What does hold: the zone never moves back for an input that starts in
\* 'raw' or 'processed'
C27_ZoneNeverMovesBackFromRaw ==
    \A j \in 1..Len(runs) :
        StartZoneOf(j) \in {"raw", "processed"} => MovesForward(j)

---------------------------------------------------------------------------
(* C28: no key is written twice in one call *)

\* Two successful writes of the call to the same key
WrittenTwice(c, d) ==
    c # d /\ calls[c].ok /\ calls[d].ok /\ calls[c].key = calls[d].key

\* C28: within one call of process_data_pipeline no object key is written
\* twice: two different entries of the input list never write to the same
\* key in raw, processed, enriched or curated, even when they share a base
\* file name (different directories, or the same reference listed twice)
\* and are processed within the same second, so no output of one input is
\* overwritten by another.
C28_NoKeyWrittenTwice ==
    \A c, d \in 1..Len(calls) : ~WrittenTwice(c, d)

\* What does hold: two inputs with different base file names never write
\* to the same key
C28_DistinctNamesDistinctKeys ==
    \A c, d \in 1..Len(calls) :
        WrittenTwice(c, d) =>
            BaseName(input_files[calls[c].input]) = BaseName(input_files[calls[d].input])

---------------------------------------------------------------------------
(* C29: a move_file that returns False *)

\* The last operation is a move_file that returned False
MoveRefused == last.op = "move_file" /\ last.ret = "False"

\* C29: whenever move_file returns False the set of stored objects is the
\* same as before the call: no object has been added at the target key and
\* none removed at the source key, whether the failure came from the zone
\* check, from the copy, or from the delete that follows a successful copy.
C29_RefusedMoveChangesNothing ==
    MoveRefused =>
        /\ DOMAIN store = DOMAIN last.before
        /\ store = last.before

\* What does hold: a move refused by the zone check or by the copy leaves
\* the store as it was, and a refused move never removes the source
C29_RefusedMoveKeepsSource ==
    MoveRefused =>
        /\ Len(last.s3) <= 1 => store = last.before
        /\ last.source_key \in DOMAIN last.before => last.source_key \in DOMAIN store

---------------------------------------------------------------------------
(* C30: bulk_upload *)

\* The last operation is a bulk_upload
Bulked == last.op = "bulk_upload"

\* The files the last bulk_upload visited, in order
Visited ==
    IF last.recursive THEN DirectoryFiles
    ELSE SelectSeq(DirectoryFiles, LAMBDA f : f.dir = <<>>)

\* '<zone>/<path relative to the directory>' of a visited file
BulkKey(file) == last.zone \o "/" \o Join(file.dir) \o file.stem \o file.ext

\* The upload of the n-th visited file succeeded
BulkSucceeded(n) == last.zone \in ZoneSet /\ FileOutcome(last.fail, n) = "ok"

\* C30: bulk_upload returns exactly the keys '<zone>/<path relative to
\* the directory>' of the files whose upload succeeded, in the order the
\* files were visited; a file whose upload fails or raises is omitted from
\* the list and does not prevent the remaining files from being uploaded.
C30_BulkUploadKeys ==
    Bulked =>
        LET done == {n \in 1..Len(Visited) : BulkSucceeded(n)}
        IN /\ Len(last.ret) = Cardinality(done)
           /\ \A n \in done :
                 /\ last.ret[Cardinality({m \in done : m <= n})] = BulkKey(Visited[n])
                 /\ BulkKey(Visited[n]) \in DOMAIN store
                 /\ store[BulkKey(Visited[n])].content.origin
                        = "data/" \o Join(Visited[n].dir) \o Visited[n].stem
                          \o Visited[n].ext
           /\ last.zone \in ZoneSet =>
                 last.s3 = [n \in 1..Len(Visited) |->
                               S3Call("upload_file", BulkKey(Visited[n]))]

\* A recursive bulk_upload of three files whose second upload raised: the
\* first and the third key are returned, in that order
C30_Witness ==
    /\ Bulked
    /\ last.recursive
    /\ last.fail = [at |-> 2, kind |-> "other_error"]
    /\ last.ret = <<"curated/notes.csv", "curated/b/out.csv">>
    /\ "curated/b/out.csv" \in DOMAIN store

\* A recursive bulk_upload where the path separator is a backslash
C30_WitnessBackslash ==
    /\ Bulked
    /\ last.sep = "\\"
    /\ last.ret = <<"curated/notes.csv", "curated/memo.json", "curated/b/out.csv">>

====
